---------------------------- MODULE Spec2Model ----------------------------
(***************************************************************************)
(* Model of the portfolio backtesting engine of fin.py:                    *)
(*   - PortfolioBacktester.compute_transaction_costs   (pure function)     *)
(*   - PortfolioBacktester.should_rebalance            (pure function)     *)
(*   - PortfolioBacktester._optimize_weights           (iterative solver)  *)
(*   - PortfolioBacktester.run_backtest                (walk-forward loop) *)
(*                                                                         *)
(* Floating point values are modelled as exact rationals [n, d] in lowest  *)
(* terms with d > 0, extended with the three non-finite values a division  *)
(* by zero produces: NaN = 0/0, +Inf = 1/0, -Inf = -1/0.                   *)
(***************************************************************************)
EXTENDS Integers, Sequences, FiniteSets, TLC

VARIABLES
    \* ---- a single call of a pure function (should_rebalance, costs)
    fn_op, fn_in, fn_out,
    \* ---- one call of _optimize_weights
    opt_pc, opt_in, weights, opt_steps,
    \* ---- one call of run_backtest
    pc, cfg, t, current_weights, portfolio_value, last_rebalance_idx,
    portfolio_values, portfolio_returns, weights_history,
    transaction_costs, turnover, rebalance_dates,
    \* ---- the outcome of _compute_performance_metrics at the end of the call
    metrics,
    \* ---- one call of MultiPeriodOptimizer.optimize_dynamic_program or
    \*      optimize_with_garch; mp_assigned and mp_refs record which rows of
    \*      optimal_weights were written and which reference each solve used
    mp_pc, mp_in, mp_t, optimal_weights, mp_assigned, mp_refs, mp_sim, mp_result,
    \* ---- a ModernPortfolioFramework object and the outcome of the last call
    fw_pc, fw_models, fw_trained, fw_train_called, fw_next_id,
    multi_period_optimizer, fw_last, fw_calls,
    \* ---- one call of TorchPortfolioOptimizer.optimize_minimum_variance_torch
    \*      or optimize_risk_parity_torch
    tp_pc, tp_in, tp_weights, tp_epoch, no_improve

fn_vars  == <<fn_op, fn_in, fn_out>>
opt_vars == <<opt_pc, opt_in, weights, opt_steps>>
bt_vars  == <<pc, cfg, t, current_weights, portfolio_value, last_rebalance_idx,
              portfolio_values, portfolio_returns, weights_history,
              transaction_costs, turnover, rebalance_dates, metrics>>
mp_vars  == <<mp_pc, mp_in, mp_t, optimal_weights, mp_assigned, mp_refs, mp_sim,
              mp_result>>
fw_vars  == <<fw_pc, fw_models, fw_trained, fw_train_called, fw_next_id,
              multi_period_optimizer, fw_last, fw_calls>>
tp_vars  == <<tp_pc, tp_in, tp_weights, tp_epoch, no_improve>>
vars     == <<fn_vars, opt_vars, bt_vars, mp_vars, fw_vars, tp_vars>>

-----------------------------------------------------------------------------
(* Extended rational arithmetic (the float operations the code uses).      *)

RECURSIVE GCD(_, _)
GCD(a, b) == IF b = 0 THEN a ELSE GCD(b, a % b)

Abs(i) == IF i < 0 THEN -i ELSE i
Sign(i) == IF i > 0 THEN 1 ELSE IF i < 0 THEN -1 ELSE 0

\* n/d in lowest terms, d # 0
Q(n, d) ==
    LET g == GCD(Abs(n), Abs(d))
        s == IF d < 0 THEN -1 ELSE 1
    IN  [n |-> (s * n) \div g, d |-> (s * d) \div g]

NaN    == [n |-> 0, d |-> 0]
PosInf == [n |-> 1, d |-> 0]
NegInf == [n |-> -1, d |-> 0]
Zero   == [n |-> 0, d |-> 1]
One    == [n |-> 1, d |-> 1]

IsFinite(x) == x.d # 0
IsNaN(x)    == x.d = 0 /\ x.n = 0

FNeg(x) == [n |-> -x.n, d |-> x.d]
FAbs(x) == [n |-> Abs(x.n), d |-> x.d]

FAdd(x, y) ==
    IF IsFinite(x) /\ IsFinite(y)
    THEN LET g == GCD(x.d, y.d)
         IN  Q(x.n * (y.d \div g) + y.n * (x.d \div g), (x.d \div g) * y.d)
    ELSE IF IsNaN(x) \/ IsNaN(y) THEN NaN
    ELSE IF ~IsFinite(x) /\ ~IsFinite(y) THEN (IF x.n = y.n THEN x ELSE NaN)
    ELSE IF ~IsFinite(x) THEN x ELSE y

FSub(x, y) == FAdd(x, FNeg(y))

FMul(x, y) ==
    IF IsFinite(x) /\ IsFinite(y)
    THEN LET g1 == GCD(Abs(x.n), y.d)
             g2 == GCD(Abs(y.n), x.d)
         IN  [n |-> (x.n \div g1) * (y.n \div g2), d |-> (x.d \div g2) * (y.d \div g1)]
    ELSE IF IsNaN(x) \/ IsNaN(y) \/ x.n = 0 \/ y.n = 0 THEN NaN
    ELSE [n |-> Sign(x.n) * Sign(y.n), d |-> 0]

FDiv(x, y) ==
    IF IsFinite(x) /\ IsFinite(y)
    THEN IF y.n # 0
         THEN LET g1 == GCD(Abs(x.n), Abs(y.n))
                  g2 == GCD(x.d, y.d)
              IN  Q((x.n \div g1) * (y.d \div g2), (x.d \div g2) * (y.n \div g1))
         ELSE [n |-> Sign(x.n), d |-> 0]
    ELSE IF IsNaN(x) \/ IsNaN(y) THEN NaN
    ELSE IF ~IsFinite(x) /\ ~IsFinite(y) THEN NaN
    ELSE IF ~IsFinite(y) THEN Zero
    ELSE [n |-> Sign(x.n) * (IF y.n < 0 THEN -1 ELSE 1), d |-> 0]

\* x < y as IEEE compares: false as soon as one side is NaN
FLt(x, y) ==
    IF IsNaN(x) \/ IsNaN(y) THEN FALSE
    ELSE IF IsFinite(x) /\ IsFinite(y)
    THEN LET g == GCD(x.d, y.d)
         IN  x.n * (y.d \div g) < y.n * (x.d \div g)
    ELSE IF ~IsFinite(x) /\ ~IsFinite(y) THEN x.n < y.n
    ELSE IF ~IsFinite(x) THEN x.n < 0
    ELSE y.n > 0

FGt(x, y) == FLt(y, x)
FLe(x, y) == ~IsNaN(x) /\ ~IsNaN(y) /\ ~FLt(y, x)

\* torch.clamp(x, min=lo, max=hi): NaN stays NaN
Clamp(x, lo, hi) ==
    IF IsNaN(x) THEN NaN
    ELSE IF FLt(x, lo) THEN lo
    ELSE IF FGt(x, hi) THEN hi
    ELSE x

\* the sum of v[lo..hi]; the additions are exact, so their order is immaterial
RECURSIVE FSumRange(_, _, _)
FSumRange(v, lo, hi) ==
    IF lo > hi THEN Zero
    ELSE IF lo = hi THEN v[lo]
    ELSE LET mid == (lo + hi) \div 2
         IN  FAdd(FSumRange(v, lo, mid), FSumRange(v, mid + 1, hi))

\* torch.sum of a vector
FSum(v) == FSumRange(v, 1, Len(v))

\* torch.max of a non-empty vector: NaN if any entry is NaN
RECURSIVE FMax(_)
FMax(v) ==
    IF Len(v) = 1 THEN v[1]
    ELSE LET m == FMax(Tail(v))
         IN  IF IsNaN(v[1]) \/ IsNaN(m) THEN NaN
             ELSE IF FLt(v[1], m) THEN m ELSE v[1]

AllFinite(v) == \A i \in 1..Len(v) : IsFinite(v[i])
NaNVec(N)    == [i \in 1..N |-> NaN]
VSub(a, b)   == [i \in 1..Len(a) |-> FSub(a[i], b[i])]
VAbs(a)      == [i \in 1..Len(a) |-> FAbs(a[i])]
VScale(a, k) == [i \in 1..Len(a) |-> FMul(a[i], k)]
VMul(a, b)   == [i \in 1..Len(a) |-> FMul(a[i], b[i])]
VDivS(a, s)  == [i \in 1..Len(a) |-> FDiv(a[i], s)]
Dot(a, b)    == FSum(VMul(a, b))


-----------------------------------------------------------------------------
(* Enumerations (RebalanceFrequency, TransactionCostModel).                *)

DAILY     == "daily"
WEEKLY    == "weekly"
MONTHLY   == "monthly"
QUARTERLY == "quarterly"
ANNUALLY  == "annually"
THRESHOLD == "threshold"
RebalanceFrequency == {DAILY, WEEKLY, MONTHLY, QUARTERLY, ANNUALLY, THRESHOLD}

PROPORTIONAL            == "proportional"
FIXED_PLUS_PROPORTIONAL == "fixed_plus_proportional"
MARKET_IMPACT           == "market_impact"
NONE                    == "none"
TransactionCostModel == {PROPORTIONAL, FIXED_PLUS_PROPORTIONAL, MARKET_IMPACT, NONE}

\* elapsed-period counts of the calendar frequencies in should_rebalance
WeeklyPeriods    == 5
MonthlyPeriods   == 21
QuarterlyPeriods == 63
AnnualPeriods    == 252

\* 1e-6, the weight change above which a trade is counted
TradeEps == Q(1, 1000000)

-----------------------------------------------------------------------------
(* compute_transaction_costs.  The result is the number                    *)
(*     rat + coef * (sqrt(surds[1]) + ... + sqrt(surds[k]))                *)
(* kept in this form because a square root of a rational is in general not *)
(* a rational.  sqrt(0) = 0 is dropped from surds, sqrt of a negative      *)
(* number or of NaN is NaN, and 0 * (a finite sum) = 0 empties the term.   *)

Cost(rat, coef, surds) == [rat |-> rat, coef |-> coef, surds |-> surds]
PlainCost(rat) == Cost(rat, Zero, <<>>)

\* market_impact_coef * torch.sum(torch.sqrt(trade_amounts)), added to `rat`
SqrtImpact(rat, coef, trade_amounts) ==
    LET bad == \E i \in 1..Len(trade_amounts) :
                   ~IsFinite(trade_amounts[i]) \/ trade_amounts[i].n < 0
        nz  == SelectSeq(trade_amounts, LAMBDA x : x.n # 0)
    IN  IF bad \/ ~IsFinite(coef) \/ ~IsFinite(rat) THEN PlainCost(NaN)
        ELSE IF coef.n = 0 \/ nz = <<>> THEN PlainCost(rat)
        ELSE Cost(rat, coef, nz)

\* variant of CountTrades: every position counts as a trade (no 1e-6 threshold)
CountTradesNoEps(old_weights, new_weights) ==
    Cardinality({i \in 1..Len(old_weights) :
                    FLe(Zero, FAbs(FSub(new_weights[i], old_weights[i])))})

\* torch.sum(torch.abs(new_weights - old_weights) > 1e-6).item()
CountTrades(old_weights, new_weights) ==
    Cardinality({i \in 1..Len(old_weights) :
                    FGt(FAbs(FSub(new_weights[i], old_weights[i])), TradeEps)})

\* variant of compute_transaction_costs: signed trade amounts (torch.abs dropped)
compute_transaction_costs_signed(old_weights, new_weights, value, cost_model, cost_rate, fixed_cost, market_impact_coef) ==
    LET trade_amounts == VScale(VSub(new_weights, old_weights), value)
        proportional  == FMul(FSum(trade_amounts), cost_rate)
    IN  IF cost_model = NONE THEN PlainCost(Zero)
        ELSE IF cost_model = PROPORTIONAL THEN PlainCost(proportional)
        ELSE IF cost_model = FIXED_PLUS_PROPORTIONAL
        THEN LET n_trades == CountTrades(old_weights, new_weights)
                 fixed    == FMul(Q(n_trades, 1), fixed_cost)
             IN  PlainCost(FAdd(proportional, fixed))
        ELSE IF cost_model = MARKET_IMPACT
        THEN SqrtImpact(proportional, market_impact_coef, trade_amounts)
        ELSE PlainCost(Zero)

compute_transaction_costs(old_weights, new_weights, value, cost_model, cost_rate, fixed_cost, market_impact_coef) ==
    LET trade_amounts == VScale(VAbs(VSub(new_weights, old_weights)), value)
        proportional  == FMul(FSum(trade_amounts), cost_rate)
    IN  IF cost_model = NONE THEN PlainCost(Zero)
        ELSE IF cost_model = PROPORTIONAL THEN PlainCost(proportional)
        ELSE IF cost_model = FIXED_PLUS_PROPORTIONAL
        THEN LET n_trades == CountTrades(old_weights, new_weights)
                 fixed    == FMul(Q(n_trades, 1), fixed_cost)
             IN  PlainCost(FAdd(proportional, fixed))
        ELSE IF cost_model = MARKET_IMPACT
        THEN SqrtImpact(proportional, market_impact_coef, trade_amounts)
        ELSE PlainCost(Zero)

-----------------------------------------------------------------------------
(* should_rebalance.                                                       *)

\* variant of should_rebalance: the calendar branches compare with > instead of >=
should_rebalance_strict(cur_weights, target_weights, rebalance_freq, current_idx, last_idx, threshold) ==
    IF rebalance_freq = DAILY THEN TRUE
    ELSE IF rebalance_freq = WEEKLY
    THEN (current_idx - last_idx) > WeeklyPeriods
    ELSE IF rebalance_freq = MONTHLY
    THEN (current_idx - last_idx) > MonthlyPeriods
    ELSE IF rebalance_freq = QUARTERLY
    THEN (current_idx - last_idx) > QuarterlyPeriods
    ELSE IF rebalance_freq = ANNUALLY
    THEN (current_idx - last_idx) > AnnualPeriods
    ELSE IF rebalance_freq = THRESHOLD
    THEN LET weight_drift == FMax(VAbs(VSub(cur_weights, target_weights)))
         IN  FGt(weight_drift, threshold)
    ELSE FALSE

\* variant of should_rebalance: the threshold branch compares with >= instead of >
should_rebalance_ge(cur_weights, target_weights, rebalance_freq, current_idx, last_idx, threshold) ==
    IF rebalance_freq = DAILY THEN TRUE
    ELSE IF rebalance_freq = WEEKLY
    THEN (current_idx - last_idx) >= WeeklyPeriods
    ELSE IF rebalance_freq = MONTHLY
    THEN (current_idx - last_idx) >= MonthlyPeriods
    ELSE IF rebalance_freq = QUARTERLY
    THEN (current_idx - last_idx) >= QuarterlyPeriods
    ELSE IF rebalance_freq = ANNUALLY
    THEN (current_idx - last_idx) >= AnnualPeriods
    ELSE IF rebalance_freq = THRESHOLD
    THEN LET weight_drift == FMax(VAbs(VSub(cur_weights, target_weights)))
         IN  FLe(threshold, weight_drift)
    ELSE FALSE

should_rebalance(cur_weights, target_weights, rebalance_freq, current_idx, last_idx, threshold) ==
    IF rebalance_freq = DAILY THEN TRUE
    ELSE IF rebalance_freq = WEEKLY
    THEN (current_idx - last_idx) >= WeeklyPeriods
    ELSE IF rebalance_freq = MONTHLY
    THEN (current_idx - last_idx) >= MonthlyPeriods
    ELSE IF rebalance_freq = QUARTERLY
    THEN (current_idx - last_idx) >= QuarterlyPeriods
    ELSE IF rebalance_freq = ANNUALLY
    THEN (current_idx - last_idx) >= AnnualPeriods
    ELSE IF rebalance_freq = THRESHOLD
    THEN LET weight_drift == FMax(VAbs(VSub(cur_weights, target_weights)))
         IN  FGt(weight_drift, threshold)
    ELSE FALSE

-----------------------------------------------------------------------------
(* Calls of the two pure functions on inputs drawn from small sets.        *)

\* largest time index handed to should_rebalance
MaxIdx == 255

FnVecs ==
    { <<Q(1, 2), Q(1, 2)>>, <<Q(7, 10), Q(3, 10)>>, <<One, Zero>>,
      <<Zero, One>>, <<Q(3, 2), Q(-1, 2)>> }
FnTargets    == { <<Q(1, 2), Q(1, 2)>>, <<Zero, One>>, <<Q(7, 10), Q(3, 10)>> }
FnThresholds == { Zero, Q(1, 20), One }
FnLastIdx    == { 0, 3 }
FnValues     == { Zero, Q(1000, 1), Q(-100, 1) }
FnRates      == { Zero, Q(1, 100), Q(1, 1000) }
FnFixedCosts == { Zero, Q(5, 1) }
FnImpacts    == { Zero, Q(1, 10) }

FnIdle  == fn_op = "idle" /\ fn_in = <<>> /\ fn_out = <<>>
OptIdle == opt_pc = "idle" /\ opt_in = <<>> /\ weights = <<>> /\ opt_steps = 0
BtIdle ==
    /\ pc = "idle" /\ cfg = <<>> /\ t = 0
    /\ current_weights = <<>> /\ portfolio_value = Zero /\ last_rebalance_idx = 0
    /\ portfolio_values = <<>> /\ portfolio_returns = <<>> /\ weights_history = <<>>
    /\ transaction_costs = <<>> /\ turnover = <<>> /\ rebalance_dates = <<>>
    /\ metrics = [outcome |-> "none"]
MpIdle ==
    /\ mp_pc = "idle" /\ mp_in = <<>> /\ mp_t = 0 /\ optimal_weights = <<>>
    /\ mp_assigned = {} /\ mp_refs = <<>> /\ mp_sim = <<>> /\ mp_result = <<>>
FwIdle ==
    /\ fw_pc = "idle" /\ fw_models = <<>> /\ fw_trained = {} /\ fw_train_called = {}
    /\ fw_next_id = 0 /\ multi_period_optimizer = <<>> /\ fw_last = <<>>
    /\ fw_calls = 0
TpIdle ==
    /\ tp_pc = "idle" /\ tp_in = <<>> /\ tp_weights = <<>> /\ tp_epoch = 0
    /\ no_improve = 0

\* the calendar branches read only the indices, the threshold branch only the
\* weights and the threshold: each is enumerated densely where it is read
CallShouldRebalance ==
    /\ fn_op = "idle"
    /\ \E f \in RebalanceFrequency :
       \E cw \in (IF f = THRESHOLD THEN FnVecs ELSE {<<Q(1, 2), Q(1, 2)>>, <<Q(3, 2), Q(-1, 2)>>}),
          tw \in (IF f = THRESHOLD THEN FnTargets ELSE {<<Q(1, 2), Q(1, 2)>>, <<Zero, One>>}),
          ci \in (IF f = THRESHOLD THEN {0, 7, MaxIdx} ELSE 0..MaxIdx),
          li \in FnLastIdx,
          th \in (IF f = THRESHOLD THEN FnThresholds ELSE {Zero, Q(1, 20)}) :
        /\ fn_op' = "should_rebalance"
        /\ fn_in' = [current_weights |-> cw, target_weights |-> tw, rebalance_freq |-> f,
                     current_idx |-> ci, last_rebalance_idx |-> li, threshold |-> th]
        /\ fn_out' = should_rebalance(cw, tw, f, ci, li, th)
        /\ UNCHANGED <<opt_vars, bt_vars, mp_vars, fw_vars, tp_vars>>

CallComputeTransactionCosts ==
    /\ fn_op = "idle"
    /\ \E ow \in FnVecs, nw \in FnVecs, v \in FnValues, m \in TransactionCostModel,
          r \in FnRates, fc \in FnFixedCosts, ic \in FnImpacts :
        /\ fn_op' = "compute_transaction_costs"
        /\ fn_in' = [old_weights |-> ow, new_weights |-> nw, portfolio_value |-> v,
                     cost_model |-> m, cost_rate |-> r, fixed_cost |-> fc,
                     market_impact_coef |-> ic]
        /\ fn_out' = compute_transaction_costs(ow, nw, v, m, r, fc, ic)
        /\ UNCHANGED <<opt_vars, bt_vars, mp_vars, fw_vars, tp_vars>>

FnInit == FnIdle /\ OptIdle /\ BtIdle /\ MpIdle /\ FwIdle /\ TpIdle
FnNext == CallShouldRebalance \/ CallComputeTransactionCosts
SpecFn == FnInit /\ [][FnNext]_vars

-----------------------------------------------------------------------------
(* _optimize_weights: moment estimation, the iterative solver, and the     *)
(* final projection.                                                       *)
(*                                                                         *)
(* The direction and length of an LBFGS or Adam update are the outcome of  *)
(* float arithmetic on the curvature/moment history, which the in-place    *)
(* projection inside the closure perturbs.  An update is therefore a       *)
(* choice among the points of a grid (RawVecs), except in the cases the    *)
(* code decides by itself: a vanishing gradient leaves the weights where   *)
(* the projection put them, and a NaN gradient makes every weight NaN.     *)

\* the largest number of assets
MaxN == 2
\* raw (unprojected) weights are multiples of 1/RawDen from -1/RawDen up
RawDen == 2
RawMax == 4
\* optimizer.step calls modelled per optimization
MaxOptSteps == 2

MINIMUM_VARIANCE == "minimum_variance"
MAXIMUM_SHARPE   == "maximum_sharpe"
RISK_PARITY      == "risk_parity"
EQUAL_WEIGHT     == "equal_weight"
Methods == {MINIMUM_VARIANCE, MAXIMUM_SHARPE, RISK_PARITY, EQUAL_WEIGHT}

RawLevels == {Q(k - 1, RawDen) : k \in 0..RawMax}
RawVecs(N) == [1..N -> RawLevels]

\* torch.full((N,), 1.0 / N)
Uniform(N) == [i \in 1..N |-> Q(1, N)]

\* |x| <= 1/K for a positive integer K (no product with K is formed)
WithinInv(x, K) == IsFinite(x) /\ (x.n = 0 \/ x.d \div Abs(x.n) >= K)

\* historical_returns.mean(dim=0): NaN for an empty window
ColumnMean(window, N) ==
    [i \in 1..N |->
        FDiv(FSum([s \in 1..Len(window) |-> window[s][i]]), Q(Len(window), 1))]

\* (centered.T @ centered) / (T - 1): 0/0 = NaN for a one-row window
Covariance(window, N) ==
    LET T        == Len(window)
        mean     == ColumnMean(window, N)
        centered == [s \in 1..T |-> VSub(window[s], mean)]
    IN  [i \in 1..N |-> [j \in 1..N |->
            FDiv(FSum([s \in 1..T |-> FMul(centered[s][i], centered[s][j])]),
                 Q(T - 1, 1))]]

MatVec(m, w) == [i \in 1..Len(w) |-> Dot(m[i], w)]
MatFinite(m) == \A i \in 1..Len(m) : AllFinite(m[i])
MatZero(m)   == \A i \in 1..Len(m) : \A j \in 1..Len(m) : m[i][j] = Zero

\* weights.clamp_(min=bounds[0], max=bounds[1]); weights.div_(weights.sum())
Project(w, bounds) ==
    LET clamped == [i \in 1..Len(w) |-> Clamp(w[i], bounds[1], bounds[2])]
    IN  VDivS(clamped, FSum(clamped))

\* the gradient of the loss at the projected point w is NaN
GradIsNaN(method, mean, cov, w) ==
    \/ ~AllFinite(w)
    \/ ~MatFinite(cov)
    \/ method = MAXIMUM_SHARPE /\ ~AllFinite(mean)

\* variant: the optimizer moves the weights even where the gradient is zero
GradVanishesNever(method, mean, cov, w) == FALSE

\* the gradient of the loss at the projected point w vanishes (|g_i| <= 1e-7
\* for LBFGS, g = 0 for Adam):
\*   minimum_variance  g = 2 cov w
\*   maximum_sharpe    g = -mean/vol + (w.mean) cov w / vol^3 with
\*                     vol^2 = w cov w + 1e-8, which is 0 iff mean = 0
\*   risk_parity       with cov = 0 the loss does not depend on w
GradVanishes(method, mean, cov, w) ==
    IF method = MINIMUM_VARIANCE
    THEN \A i \in 1..Len(w) : WithinInv(FMul(Q(2, 1), MatVec(cov, w)[i]), 10000000)
    ELSE IF method = MAXIMUM_SHARPE
    THEN \A i \in 1..Len(w) : mean[i] = Zero
    ELSE MatZero(cov)

\* one optimizer.step(closure) (LBFGS) or one loop iteration (Adam): the
\* closure projects in place, then the optimizer updates the weights
OptimizerStep(method, mean, cov, bounds, w) ==
    LET projected == Project(w, bounds)
    IN  IF GradIsNaN(method, mean, cov, projected) THEN {NaNVec(Len(w))}
        ELSE IF GradVanishes(method, mean, cov, projected) THEN {projected}
        ELSE RawVecs(Len(w)) \cup {projected}

\* the weights after k optimizer steps started from ws
RECURSIVE AfterSteps(_, _, _, _, _, _)
AfterSteps(method, mean, cov, bounds, ws, k) ==
    IF k = 0 THEN ws
    ELSE AfterSteps(method, mean, cov, bounds,
             UNION {OptimizerStep(method, mean, cov, bounds, w) : w \in ws}, k - 1)

\* the values _optimize_weights(historical_returns, method, bounds) can return
OptimizeWeights(window, N, method, bounds) ==
    LET mean == ColumnMean(window, N)
        cov  == Covariance(window, N)
        raw  == IF method = EQUAL_WEIGHT THEN {Uniform(N)}
                ELSE AfterSteps(method, mean, cov, bounds, {Uniform(N)}, MaxOptSteps)
    IN  {Project(w, bounds) : w \in raw}

\* return rows used as history: all zero, first asset +100%, alternating +-50%
ZeroRow(N)   == [i \in 1..N |-> Zero]
UpRow(N)     == [i \in 1..N |-> IF i = 1 THEN One ELSE Zero]
SpreadRow(N) == [i \in 1..N |-> IF i % 2 = 1 THEN Q(1, 2) ELSE Q(-1, 2)]
Rows(N)      == {ZeroRow(N), UpRow(N), SpreadRow(N)}

\* windows of at most two rows
OptWindows(N) == {<<>>} \cup {<<a>> : a \in Rows(N)}
                        \cup {<<a, b>> : a \in Rows(N), b \in Rows(N)}
OptBounds ==
    { <<Zero, One>>, <<Zero, Q(3, 5)>>, <<Q(1, 5), One>>,
      <<Q(-1, 2), Q(3, 2)>>, <<Q(3, 5), One>> }

\* lines 411-419: shapes, statistics, initial weights
OptStart ==
    /\ opt_pc = "idle"
    /\ \E N \in 1..MaxN :
       \E window \in OptWindows(N), method \in Methods, bounds \in OptBounds :
        /\ opt_in' = [window |-> window, N |-> N, method |-> method, bounds |-> bounds]
        /\ weights' = Uniform(N)
    /\ opt_pc' = "loop"
    /\ opt_steps' = 0
    /\ UNCHANGED <<fn_vars, tp_vars, bt_vars, mp_vars, fw_vars>>

\* lines 421-473: one pass of the method's loop
OptStep ==
    /\ opt_pc = "loop"
    /\ opt_in.method # EQUAL_WEIGHT
    /\ opt_steps < MaxOptSteps
    /\ weights' \in OptimizerStep(opt_in.method, ColumnMean(opt_in.window, opt_in.N),
                                  Covariance(opt_in.window, opt_in.N),
                                  opt_in.bounds, weights)
    /\ opt_steps' = opt_steps + 1
    /\ UNCHANGED <<opt_pc, opt_in, fn_vars, tp_vars, bt_vars, mp_vars, fw_vars>>

\* lines 479-483: the final projection and the return
OptReturn ==
    /\ opt_pc = "loop"
    /\ opt_in.method = EQUAL_WEIGHT \/ opt_steps = MaxOptSteps
    /\ weights' = Project(weights, opt_in.bounds)
    /\ opt_pc' = "returned"
    /\ UNCHANGED <<opt_in, opt_steps, fn_vars, tp_vars, bt_vars, mp_vars, fw_vars>>

OptInit == FnIdle /\ OptIdle /\ BtIdle /\ MpIdle /\ FwIdle /\ TpIdle
OptNext == OptStart \/ OptStep \/ OptReturn
SpecOpt == OptInit /\ [][OptNext]_vars


-----------------------------------------------------------------------------
(* run_backtest.  Period indices are those of the code (0 .. T-1); row t of *)
(* the return tensor is cfg.returns[t + 1].  dates[t] is modelled as t.     *)

\* number of periods of the return series
MaxT == 3

BtMethods      == {MINIMUM_VARIANCE, EQUAL_WEIGHT}
BtFrequencies  == {DAILY, WEEKLY, THRESHOLD}
BtThresholds   == {Q(1, 20)}
BtCostModels   == TransactionCostModel
BtCostRates    == {Q(1, 100)}
BtBounds       == {<<Zero, One>>, <<Zero, Q(3, 5)>>}
BtLookbacks    == {1, 2}
BtMinHistories == {1, 2, 3}
BtCapitals     == {Q(1000, 1)}

ReturnSeries(N, T) == [1..T -> Rows(N)]

ZeroSeries(T) == [i \in 0..(T - 1) |-> Zero]

\* variant: the window includes the row of the current period
HistoricalReturnsThroughNow(returns, now, lookback_window) ==
    LET start_idx == IF now - lookback_window > 0 THEN now - lookback_window ELSE 0
    IN  [k \in 1..(now + 1 - start_idx) |-> returns[start_idx + k]]

\* self.returns[start_idx:t] with start_idx = max(0, t - lookback_window)
HistoricalReturns(returns, now, lookback_window) ==
    LET start_idx == IF now - lookback_window > 0 THEN now - lookback_window ELSE 0
    IN  [k \in 1..(now - start_idx) |-> returns[start_idx + k]]

\* lines 305-325: tracking tensors, equal-weight start, entry of the loop
BtStart ==
    /\ pc = "idle"
    /\ \E N \in 1..MaxN, T \in {MaxT} :
       \E returns \in ReturnSeries(N, T), method \in BtMethods,
          lookback \in BtLookbacks, freq \in BtFrequencies,
          threshold \in BtThresholds, model \in BtCostModels, rate \in BtCostRates,
          min_history \in BtMinHistories, bounds \in BtBounds,
          capital \in BtCapitals :
        /\ cfg' = [N |-> N, T |-> T, returns |-> returns,
                   optimization_method |-> method, lookback_window |-> lookback,
                   rebalance_freq |-> freq, rebalance_threshold |-> threshold,
                   cost_model |-> model, cost_rate |-> rate,
                   min_history |-> min_history, bounds |-> bounds,
                   initial_capital |-> capital]
        /\ portfolio_values' = [ZeroSeries(T) EXCEPT ![0] = capital]
        /\ portfolio_returns' = ZeroSeries(T)
        /\ weights_history' = [[i \in 0..(T - 1) |-> ZeroRow(N)] EXCEPT ![0] = Uniform(N)]
        /\ transaction_costs' = ZeroSeries(T)
        /\ turnover' = ZeroSeries(T)
        /\ rebalance_dates' = <<>>
        /\ current_weights' = Uniform(N)
        /\ portfolio_value' = capital
        /\ last_rebalance_idx' = min_history
        /\ t' = min_history
        /\ pc' = IF min_history < T THEN "check" ELSE "done"
        /\ metrics' = metrics
    /\ UNCHANGED <<fn_vars, tp_vars, opt_vars, mp_vars, fw_vars>>

\* the arguments line 331 hands to should_rebalance
RebalanceDue ==
    should_rebalance(current_weights, current_weights, cfg.rebalance_freq,
                     t, last_rebalance_idx, cfg.rebalance_threshold)

\* the values line 335 can assign to target_weights
TargetWeights ==
    OptimizeWeights(HistoricalReturns(cfg.returns, t, cfg.lookback_window),
                    cfg.N, cfg.optimization_method, cfg.bounds)

\* variant: the cost is computed after the weights were replaced by the target
RebalanceCostFromTarget(target_weights) ==
    compute_transaction_costs(target_weights, target_weights, portfolio_value,
                              cfg.cost_model, cfg.cost_rate, Zero, Zero).rat

\* variant: a fixed fee and an impact coefficient of 1 are handed on
RebalanceCostWithFee(target_weights) ==
    compute_transaction_costs(current_weights, target_weights, portfolio_value,
                              cfg.cost_model, cfg.cost_rate, One, One).rat

\* lines 339-343: fixed_cost and market_impact_coef keep their defaults 0.0
RebalanceCost(target_weights) ==
    compute_transaction_costs(current_weights, target_weights, portfolio_value,
                              cfg.cost_model, cfg.cost_rate, Zero, Zero).rat

\* variant: the cost is recorded but not taken out of the portfolio value
RebalanceKeepsValue(target_weights) ==
    LET tc == RebalanceCost(target_weights)
    IN  /\ turnover' = [turnover EXCEPT
                           ![t] = FSum(VAbs(VSub(target_weights, current_weights)))]
        /\ portfolio_value' = portfolio_value
        /\ transaction_costs' = [transaction_costs EXCEPT ![t] = tc]
        /\ current_weights' = target_weights
        /\ last_rebalance_idx' = t
        /\ rebalance_dates' = Append(rebalance_dates, t)

\* variant: the date of the rebalance is not recorded
RebalanceUndated(target_weights) ==
    LET tc == RebalanceCost(target_weights)
    IN  /\ turnover' = [turnover EXCEPT
                           ![t] = FSum(VAbs(VSub(target_weights, current_weights)))]
        /\ portfolio_value' = FSub(portfolio_value, tc)
        /\ transaction_costs' = [transaction_costs EXCEPT ![t] = tc]
        /\ current_weights' = target_weights
        /\ last_rebalance_idx' = t
        /\ rebalance_dates' = rebalance_dates

\* lines 334-353: the rebalance itself
Rebalance(target_weights) ==
    LET tc == RebalanceCost(target_weights)
    IN  /\ turnover' = [turnover EXCEPT
                           ![t] = FSum(VAbs(VSub(target_weights, current_weights)))]
        /\ portfolio_value' = FSub(portfolio_value, tc)
        /\ transaction_costs' = [transaction_costs EXCEPT ![t] = tc]
        /\ current_weights' = target_weights
        /\ last_rebalance_idx' = t
        /\ rebalance_dates' = Append(rebalance_dates, t)

\* lines 326-355: Check-Rebalance and, if due, Apply-Cost
BtCheckRebalance ==
    /\ pc = "check"
    /\ IF RebalanceDue
       THEN \E target_weights \in TargetWeights : Rebalance(target_weights)
       ELSE UNCHANGED <<turnover, portfolio_value, transaction_costs,
                        current_weights, last_rebalance_idx, rebalance_dates>>
    /\ pc' = "realize"
    /\ UNCHANGED <<cfg, t, portfolio_values, portfolio_returns, weights_history,
                   metrics, fn_vars, tp_vars, opt_vars, mp_vars, fw_vars>>

\* lines 357-363: Realize-Return
BtRealizeReturn ==
    /\ pc = "realize"
    /\ LET portfolio_return == FSum(VMul(current_weights, cfg.returns[t + 1]))
       IN  /\ portfolio_returns' = [portfolio_returns EXCEPT ![t] = portfolio_return]
           /\ portfolio_value' = FMul(portfolio_value, FAdd(One, portfolio_return))
    /\ portfolio_values' = [portfolio_values EXCEPT ![t] = portfolio_value']
    /\ pc' = "drift"
    /\ UNCHANGED <<cfg, t, current_weights, last_rebalance_idx, weights_history,
                   transaction_costs, turnover, rebalance_dates, metrics,
                   fn_vars, tp_vars, opt_vars, mp_vars, fw_vars>>

\* variant: the asset values are not divided by their sum
DriftedWeightsUnnormalised(w, value, row) ==
    [i \in 1..Len(w) |-> FMul(FMul(w[i], value), FAdd(One, row[i]))]

\* lines 366-368: the weights after the period's returns
DriftedWeights(w, value, row) ==
    LET asset_values == [i \in 1..Len(w) |->
                            FMul(FMul(w[i], value), FAdd(One, row[i]))]
    IN  VDivS(asset_values, FSum(asset_values))

\* lines 365-370 and the loop step: Drift-Weights
BtDriftWeights ==
    /\ pc = "drift"
    /\ current_weights' = DriftedWeights(current_weights, portfolio_value, cfg.returns[t + 1])
    /\ weights_history' = [weights_history EXCEPT ![t] = current_weights']
    /\ t' = t + 1
    /\ pc' = IF t + 1 < cfg.T THEN "check" ELSE "done"
    /\ UNCHANGED <<cfg, portfolio_value, last_rebalance_idx, portfolio_values,
                   portfolio_returns, transaction_costs, turnover, rebalance_dates,
                   metrics, fn_vars, tp_vars, opt_vars, mp_vars, fw_vars>>

\* torch.cummax and the drawdown of lines 508-510 over the entries from..to:
\* acc.peak is the running maximum before entry `from`, acc.low the smallest
\* drawdown so far, acc.first says that no entry was read yet.  A nan entry makes the running
\* maximum nan from there on, and torch.min returns nan if any drawdown is nan.
RECURSIVE DrawdownRange(_, _, _, _)
DrawdownRange(values, from, to, acc) ==
    IF from > to THEN acc
    ELSE IF from = to
    THEN LET v    == values[from]
             peak == IF acc.first THEN v
                     ELSE IF IsNaN(acc.peak) \/ IsNaN(v) THEN NaN
                     ELSE IF FLe(acc.peak, v) THEN v ELSE acc.peak
             dd   == FDiv(FSub(v, peak), peak)
             low  == IF acc.first THEN dd
                     ELSE IF IsNaN(acc.low) \/ IsNaN(dd) THEN NaN
                     ELSE IF FLt(dd, acc.low) THEN dd ELSE acc.low
         IN  [first |-> FALSE, peak |-> peak, low |-> low]
    ELSE LET mid == (from + to) \div 2
         IN  DrawdownRange(values, mid + 1, to,
                           DrawdownRange(values, from, mid, acc))

\* variant: only the drawdown of the last entry is reported
MaxDrawdownAtEnd(values, n) ==
    LET peak == DrawdownRange(values, 0, n - 1, [first |-> TRUE, peak |-> Zero, low |-> Zero]).peak
    IN  FDiv(FSub(values[n - 1], peak), peak)

\* lines 508-510: max_drawdown = min((values - cummax) / cummax)
MaxDrawdown(values, n) ==
    DrawdownRange(values, 0, n - 1, [first |-> TRUE, peak |-> Zero, low |-> Zero]).low

\* lines 516-528: wins are the returns > 0, losses all the others (zeros and
\* nan included); total_wins and total_losses are Python floats, so a zero
\* total_losses makes the division of line 528 raise ZeroDivisionError
ProfitFactor(returns, n) ==
    LET positive     == {i \in 0..(n - 1) : FGt(returns[i], Zero)}
        total_wins   == FSum([k \in 1..n |-> IF (k - 1) \in positive
                                             THEN returns[k - 1] ELSE Zero])
        total_losses == FAbs(FSum([k \in 1..n |-> IF (k - 1) \in positive
                                                  THEN Zero ELSE returns[k - 1]]))
    IN  IF Cardinality(positive) = n
        THEN [raised |-> FALSE,
              value |-> FMul(FMul(total_wins, Q(100000, 1)), Q(100000, 1))]
        ELSE IF total_losses = Zero
        THEN [raised |-> TRUE]
        ELSE [raised |-> FALSE, value |-> FDiv(total_wins, total_losses)]

\* lines 485-542.  The entries that need a root or a power (annualized_return,
\* annualized_volatility, sharpe_ratio, sortino_ratio, calmar_ratio) are left
\* out of the table: their divisions are guarded or are numpy divisions.
ComputePerformanceMetrics(values, returns, n, initial_capital) ==
    LET positive == {i \in 0..(n - 1) : FGt(returns[i], Zero)}
        pf       == ProfitFactor(returns, n)
    IN  IF pf.raised
        THEN [outcome |-> "ZeroDivisionError"]
        ELSE [outcome |-> "returned",
              total_return |-> FDiv(FSub(values[n - 1], initial_capital),
                                    initial_capital),
              max_drawdown |-> MaxDrawdown(values, n),
              win_rate |-> Q(Cardinality(positive), n),
              profit_factor |-> pf.value]

\* lines 375-394: the metrics of the finished loop and the returned result
BtComputeMetrics ==
    /\ pc = "done"
    /\ metrics.outcome = "none"
    /\ metrics' = ComputePerformanceMetrics(portfolio_values, portfolio_returns,
                                            cfg.T, cfg.initial_capital)
    /\ UNCHANGED <<pc, cfg, t, current_weights, portfolio_value, last_rebalance_idx,
                   portfolio_values, portfolio_returns, weights_history,
                   transaction_costs, turnover, rebalance_dates,
                   fn_vars, tp_vars, opt_vars, mp_vars, fw_vars>>

Init == FnIdle /\ OptIdle /\ BtIdle /\ MpIdle /\ FwIdle /\ TpIdle
Next ==
    \/ BtStart \/ BtCheckRebalance \/ BtRealizeReturn \/ BtDriftWeights
    \/ BtComputeMetrics
Spec == Init /\ [][Next]_vars

-----------------------------------------------------------------------------
(* Scenario A: run_backtest on three assets whose returns are exactly zero  *)
(* for 100 periods, minimum_variance, MONTHLY.  The arguments the scenario  *)
(* leaves open are drawn from the sets below; 60 and 252 are the defaults   *)
(* of min_history and lookback_window.                                      *)

ScenarioA == [N |-> 3, T |-> 100]

ABounds       == {<<Zero, One>>, <<Q(1, 10), Q(1, 2)>>}
ALookbacks    == {2, 252}
AMinHistories == {2, 60}
ACostRates    == {Q(1, 1000)}
ACapitals     == {Q(1000000, 1)}

\* lines 305-325 with the arguments of Scenario A
BtStartScenarioA ==
    /\ pc = "idle"
    /\ \E lookback \in ALookbacks, model \in TransactionCostModel,
          rate \in ACostRates, min_history \in AMinHistories,
          bounds \in ABounds, capital \in ACapitals :
        /\ cfg' = [N |-> ScenarioA.N, T |-> ScenarioA.T,
                   returns |-> [i \in 1..ScenarioA.T |-> ZeroRow(ScenarioA.N)],
                   optimization_method |-> MINIMUM_VARIANCE,
                   lookback_window |-> lookback,
                   rebalance_freq |-> MONTHLY, rebalance_threshold |-> Q(1, 20),
                   cost_model |-> model, cost_rate |-> rate,
                   min_history |-> min_history, bounds |-> bounds,
                   initial_capital |-> capital]
        /\ portfolio_values' = [ZeroSeries(ScenarioA.T) EXCEPT ![0] = capital]
        /\ portfolio_returns' = ZeroSeries(ScenarioA.T)
        /\ weights_history' = [[i \in 0..(ScenarioA.T - 1) |-> ZeroRow(ScenarioA.N)]
                                  EXCEPT ![0] = Uniform(ScenarioA.N)]
        /\ transaction_costs' = ZeroSeries(ScenarioA.T)
        /\ turnover' = ZeroSeries(ScenarioA.T)
        /\ rebalance_dates' = <<>>
        /\ current_weights' = Uniform(ScenarioA.N)
        /\ portfolio_value' = capital
        /\ last_rebalance_idx' = min_history
        /\ t' = min_history
        /\ pc' = "check"
        /\ metrics' = metrics
    /\ UNCHANGED <<fn_vars, tp_vars, opt_vars, mp_vars, fw_vars>>

NextA ==
    \/ BtStartScenarioA \/ BtCheckRebalance \/ BtRealizeReturn \/ BtDriftWeights
    \/ BtComputeMetrics
SpecA == Init /\ [][NextA]_vars

-----------------------------------------------------------------------------
(* run_backtest over a series long enough for every calendar frequency to  *)
(* come due: two assets, equal_weight, returns exactly zero.               *)

\* number of periods of the long series
CalT == 260

CalFrequencies  == {DAILY, WEEKLY, MONTHLY, QUARTERLY, ANNUALLY}
CalMinHistories == {1, 5}
CalCostModels   == {FIXED_PLUS_PROPORTIONAL}

\* variant: the index of the last rebalance starts at 0
InitialLastRebalanceZero(min_history) == 0

\* line 319: last_rebalance_idx = min_history
InitialLastRebalance(min_history) == min_history

\* lines 305-325 with the arguments above
BtStartCalendar ==
    /\ pc = "idle"
    /\ \E freq \in CalFrequencies, min_history \in CalMinHistories,
          model \in CalCostModels :
        /\ cfg' = [N |-> 2, T |-> CalT,
                   returns |-> [i \in 1..CalT |-> ZeroRow(2)],
                   optimization_method |-> EQUAL_WEIGHT,
                   lookback_window |-> 2,
                   rebalance_freq |-> freq, rebalance_threshold |-> Q(1, 20),
                   cost_model |-> model, cost_rate |-> Q(1, 100),
                   min_history |-> min_history, bounds |-> <<Zero, One>>,
                   initial_capital |-> Q(1000, 1)]
        /\ portfolio_values' = [ZeroSeries(CalT) EXCEPT ![0] = Q(1000, 1)]
        /\ portfolio_returns' = ZeroSeries(CalT)
        /\ weights_history' = [[i \in 0..(CalT - 1) |-> ZeroRow(2)]
                                  EXCEPT ![0] = Uniform(2)]
        /\ transaction_costs' = ZeroSeries(CalT)
        /\ turnover' = ZeroSeries(CalT)
        /\ rebalance_dates' = <<>>
        /\ current_weights' = Uniform(2)
        /\ portfolio_value' = Q(1000, 1)
        /\ last_rebalance_idx' = InitialLastRebalance(min_history)
        /\ t' = min_history
        /\ pc' = "check"
        /\ metrics' = metrics
    /\ UNCHANGED <<fn_vars, tp_vars, opt_vars, mp_vars, fw_vars>>

NextCal ==
    \/ BtStartCalendar \/ BtCheckRebalance \/ BtRealizeReturn \/ BtDriftWeights
    \/ BtComputeMetrics
SpecCal == Init /\ [][NextCal]_vars

-----------------------------------------------------------------------------
(* MultiPeriodOptimizer: optimize_dynamic_program, optimize_with_garch and *)
(* _simulate_forward.  Rows of optimal_weights are indexed 0 .. H-1.       *)

\* the largest horizon n_periods
MaxH == 3

MpRates          == {Q(1, 4)}
MpRiskAversions  == {One}
MpBounds         == {<<Zero, One>>}
MpInitialWeights(N) == {Uniform(N), UpRow(N)}
MpReturns(N)     == {<<ZeroRow(N), ZeroRow(N)>>, <<UpRow(N), UpRow(N)>>}
\* raw solver iterates: every entry 0 or 1
MpRawVecs(N)     == [1..N -> {Zero, One}]

\* the weights _solve_single_period, _solve_with_continuation and
\* _solve_period_with_cov can return when started from start_weights: the
\* first closure call projects the start in place; a start whose projection
\* is not finite stays nan, otherwise LBFGS ends at the start or elsewhere
SolvePeriod(start_weights, bounds) ==
    LET start == Project(start_weights, bounds)
    IN  IF ~AllFinite(start) THEN {NaNVec(Len(start_weights))}
        ELSE {Project(w, bounds) : w \in MpRawVecs(Len(start_weights)) \cup {start}}

\* variant: the solve returns the projected weights of the next period
SolveTowardsNext(start_weights, next_period_weights, bounds) ==
    {Project(next_period_weights, bounds)}

\* lines 672-714: next_period_weights is a parameter the closure never reads;
\* the loss is 1.95 * immediate_utility - tc_cost of the period's own weights
SolveWithContinuation(start_weights, next_period_weights, bounds) ==
    SolvePeriod(start_weights, bounds)

\* lines 603-604 and 767: the plan starts as zeros; backward or forward loop
MpStart ==
    /\ mp_pc = "idle"
    /\ \E N \in {MaxN}, H \in 1..MaxH, garch \in BOOLEAN :
       \E returns \in MpReturns(N), rate \in MpRates, lambda \in MpRiskAversions,
          initial_weights \in MpInitialWeights(N), bounds \in MpBounds :
        /\ mp_in' = [N |-> N, n_periods |-> H, use_garch |-> garch,
                     mean_returns |-> ColumnMean(returns, N),
                     transaction_cost_rate |-> rate, risk_aversion |-> lambda,
                     initial_weights |-> initial_weights, bounds |-> bounds]
        /\ optimal_weights' = [i \in 0..(H - 1) |-> ZeroRow(N)]
        /\ mp_t' = IF garch THEN 0 ELSE H - 1
    /\ mp_pc' = "solve"
    /\ mp_assigned' = {}
    /\ mp_refs' = <<>>
    /\ UNCHANGED <<mp_sim, mp_result, fn_vars, tp_vars, opt_vars, bt_vars, fw_vars>>

\* the first argument of the solver for period mp_t: lines 608-616 (backward
\* loop: the terminal period starts from initial_weights) and 769-774
Reference ==
    IF ~mp_in.use_garch /\ mp_t = mp_in.n_periods - 1 THEN mp_in.initial_weights
    ELSE IF mp_t = 0 THEN mp_in.initial_weights
    ELSE optimal_weights[mp_t - 1]

\* the loop index after period mp_t, -1 or H when the loop is over
NextPeriod == IF mp_in.use_garch THEN mp_t + 1 ELSE mp_t - 1

\* lines 722-724: the simulation starts with wealth 1 at initial_weights
SimStart ==
    [t |-> 0, wealth |-> One, current_w |-> mp_in.initial_weights, total_tc |-> Zero]

\* lines 606-619 and 769-775: one pass of the solving loop
MpSolvePeriod ==
    /\ mp_pc = "solve"
    /\ \E w \in (IF ~mp_in.use_garch /\ mp_t < mp_in.n_periods - 1
                THEN SolveWithContinuation(Reference, optimal_weights[mp_t + 1],
                                           mp_in.bounds)
                ELSE SolvePeriod(Reference, mp_in.bounds)) :
           optimal_weights' = [optimal_weights EXCEPT ![mp_t] = w]
    /\ mp_refs' = Append(mp_refs, [t |-> mp_t, reference |-> Reference,
                                   previous_assigned |-> (mp_t - 1) \in mp_assigned])
    /\ mp_assigned' = mp_assigned \cup {mp_t}
    /\ mp_t' = NextPeriod
    /\ IF NextPeriod \in 0..(mp_in.n_periods - 1)
       THEN mp_pc' = "solve" /\ UNCHANGED mp_sim
       ELSE mp_pc' = "simulate" /\ mp_sim' = SimStart
    /\ UNCHANGED <<mp_in, mp_result, fn_vars, tp_vars, opt_vars, bt_vars, fw_vars>>

\* variant: the period return is applied before the cost is deducted
SimStepReturnFirst(sim, target_w, mean_returns, rate) ==
    LET tc == FMul(FSum(VAbs(VSub(target_w, sim.current_w))), rate)
        period_return == Dot(target_w, mean_returns)
    IN  [t |-> sim.t + 1,
         wealth |-> FSub(FMul(sim.wealth, FAdd(One, period_return)), tc),
         current_w |-> target_w,
         total_tc |-> FAdd(sim.total_tc, tc)]

\* lines 727-739: one pass of the loop of _simulate_forward
SimStep(sim, target_w, mean_returns, rate) ==
    LET tc == FMul(FSum(VAbs(VSub(target_w, sim.current_w))), rate)
        period_return == Dot(target_w, mean_returns)
    IN  [t |-> sim.t + 1,
         wealth |-> FMul(FSub(sim.wealth, tc), FAdd(One, period_return)),
         current_w |-> target_w,
         total_tc |-> FAdd(sim.total_tc, tc)]

MpSimulateStep ==
    /\ mp_pc = "simulate"
    /\ mp_sim.t < mp_in.n_periods
    /\ mp_sim' = SimStep(mp_sim, optimal_weights[mp_sim.t], mp_in.mean_returns,
                         mp_in.transaction_cost_rate)
    /\ UNCHANGED <<mp_pc, mp_in, mp_t, optimal_weights, mp_assigned, mp_refs,
                   mp_result, fn_vars, tp_vars, opt_vars, bt_vars, fw_vars>>

\* lines 742-749 and 621-630 (778-786): the statistics and the result
MpReturn ==
    /\ mp_pc = "simulate"
    /\ mp_sim.t = mp_in.n_periods
    /\ mp_result' =
         [optimal_weights |-> optimal_weights,
          rebalancing_plan |-> [k \in 1..mp_in.n_periods |->
                                    <<k - 1, optimal_weights[k - 1]>>],
          terminal_wealth |-> mp_sim.wealth,
          total_transaction_costs |-> mp_sim.total_tc,
          expected_utility |->
              FSub(mp_sim.wealth,
                   FMul(FMul(Q(1, 2), mp_in.risk_aversion),
                        FMul(mp_sim.wealth, mp_sim.wealth))),
          average_period_return |->
              FDiv(FSub(mp_sim.wealth, One), Q(mp_in.n_periods, 1))]
    /\ mp_pc' = "returned"
    /\ UNCHANGED <<mp_in, mp_t, optimal_weights, mp_assigned, mp_refs, mp_sim,
                   fn_vars, tp_vars, opt_vars, bt_vars, fw_vars>>

MpInit == FnIdle /\ OptIdle /\ BtIdle /\ MpIdle /\ FwIdle /\ TpIdle
MpNext == MpStart \/ MpSolvePeriod \/ MpSimulateStep \/ MpReturn
SpecMp == MpInit /\ [][MpNext]_vars

-----------------------------------------------------------------------------
(* ModernPortfolioFramework: the lazily created submodules.  An object is  *)
(* represented by its identity, a positive number; 0 stands for None.      *)
(* attention_model and graph_model are the fields of the owned             *)
(* ModernCovarianceEstimator.                                              *)

\* calls made on one framework object
MaxCalls == 4

Trainable    == {"return_predictor", "risk_parity_net", "black_litterman_net"}
Estimators   == {"attention_model", "graph_model"}
NeuralModels == Trainable \cup Estimators

FwPeriods        == {1, 2}
FwRates          == {Q(1, 1000), Q(1, 100)}
FwRiskAversions  == {One, Q(5, 1)}

NoOptimizer == [id |-> 0, n_periods |-> 0, transaction_cost_rate |-> Zero,
                risk_aversion |-> Zero]

\* what the last call was and how it ended; created and raises are bookkeeping
LastCall(op, model, outcome, created) ==
    [op |-> op, model |-> model, outcome |-> outcome, created |-> created,
     raises |-> IF fw_calls = 0 THEN 0
                ELSE fw_last.raises + (IF outcome = "raised" THEN 1 ELSE 0),
     n_periods |-> 0, transaction_cost_rate |-> Zero, risk_aversion |-> Zero,
     used_rate |-> Zero, used_risk_aversion |-> Zero]

\* lines 1440-1442 and 1558-1563: every lazy field starts as None
FwConstruct ==
    /\ fw_pc = "idle"
    /\ fw_pc' = "ready"
    /\ fw_models' = [m \in NeuralModels |-> 0]
    /\ fw_trained' = {}
    /\ fw_train_called' = {}
    /\ fw_next_id' = 1
    /\ multi_period_optimizer' = NoOptimizer
    /\ fw_last' = LastCall("__init__", "", "none", FALSE)
    /\ fw_calls' = 0
    /\ UNCHANGED <<fn_vars, tp_vars, opt_vars, bt_vars, mp_vars>>

\* variant: the submodule is constructed on every request
EnsureModelAlways(models, m, id) == [models EXCEPT ![m] = id]

\* lines 1710-1713, 1841-1844, 1893-1896, 1449-1452, 1490-1493
EnsureModel(models, m, id) ==
    IF models[m] = 0 THEN [models EXCEPT ![m] = id] ELSE models

\* variant: the query does not look at the field
QueryNeverRaises(models, m) == FALSE

\* lines 1761, 1866, 1936: "if self.<field> is None: raise ValueError"
QueryRaises(models, m) == models[m] = 0

\* train_return_predictor, train_neural_risk_parity,
\* train_black_litterman_network: the submodule is created first; the training
\* loop then completes or raises (e.g. torch.stack of no sequences)
FwTrain ==
    /\ fw_pc = "ready" /\ fw_calls < MaxCalls
    /\ \E m \in Trainable, outcome \in {"completed", "raised"} :
        /\ fw_models' = EnsureModel(fw_models, m, fw_next_id)
        /\ fw_next_id' = IF fw_models'[m] = fw_next_id THEN fw_next_id + 1
                         ELSE fw_next_id
        /\ fw_train_called' = fw_train_called \cup {m}
        /\ fw_trained' = IF outcome = "completed" THEN fw_trained \cup {m}
                         ELSE fw_trained
        /\ fw_last' = LastCall("train", m, outcome, fw_models'[m] = fw_next_id)
    /\ fw_calls' = fw_calls + 1
    /\ UNCHANGED <<fw_pc, multi_period_optimizer, fn_vars, tp_vars, opt_vars, bt_vars, mp_vars>>

\* estimate_with_attention, estimate_with_graph: create, fit, return
FwEstimate ==
    /\ fw_pc = "ready" /\ fw_calls < MaxCalls
    /\ \E m \in Estimators, outcome \in {"value", "raised"} :
        /\ fw_models' = EnsureModel(fw_models, m, fw_next_id)
        /\ fw_next_id' = IF fw_models'[m] = fw_next_id THEN fw_next_id + 1
                         ELSE fw_next_id
        /\ fw_last' = LastCall("estimate", m, outcome, fw_models'[m] = fw_next_id)
    /\ fw_calls' = fw_calls + 1
    /\ UNCHANGED <<fw_pc, fw_trained, fw_train_called, multi_period_optimizer,
                   fn_vars, tp_vars, opt_vars, bt_vars, mp_vars>>

\* predict_returns, optimize_neural_risk_parity, get_black_litterman_returns
FwQuery ==
    /\ fw_pc = "ready" /\ fw_calls < MaxCalls
    /\ \E m \in Trainable :
        fw_last' = LastCall("query", m,
                            IF QueryRaises(fw_models, m) THEN "raised" ELSE "value",
                            FALSE)
    /\ fw_calls' = fw_calls + 1
    /\ UNCHANGED <<fw_pc, fw_models, fw_trained, fw_train_called, fw_next_id,
                   multi_period_optimizer, fn_vars, tp_vars, opt_vars, bt_vars, mp_vars>>

\* lines 1668-1676: a new optimizer only when there is none or n_periods differs
EnsureOptimizer(optimizer, id, n_periods, rate, lambda) ==
    IF optimizer = NoOptimizer \/ optimizer.n_periods # n_periods
    THEN [id |-> id, n_periods |-> n_periods, transaction_cost_rate |-> rate,
          risk_aversion |-> lambda]
    ELSE optimizer

\* optimize_multi_period: lines 1681-1684 run the stored optimizer, whose
\* solvers and simulation read its own transaction_cost_rate and risk_aversion
FwOptimizeMultiPeriod ==
    /\ fw_pc = "ready" /\ fw_calls < MaxCalls
    /\ \E n_periods \in FwPeriods, rate \in FwRates, lambda \in FwRiskAversions :
        /\ multi_period_optimizer' =
               EnsureOptimizer(multi_period_optimizer, fw_next_id, n_periods, rate, lambda)
        /\ fw_next_id' = IF multi_period_optimizer'.id = fw_next_id
                         THEN fw_next_id + 1 ELSE fw_next_id
        /\ fw_last' = [LastCall("optimize_multi_period", "", "value",
                                multi_period_optimizer'.id = fw_next_id)
                         EXCEPT !.n_periods = n_periods,
                                !.transaction_cost_rate = rate,
                                !.risk_aversion = lambda,
                                !.used_rate =
                                    multi_period_optimizer'.transaction_cost_rate,
                                !.used_risk_aversion =
                                    multi_period_optimizer'.risk_aversion]
    /\ fw_calls' = fw_calls + 1
    /\ UNCHANGED <<fw_pc, fw_models, fw_trained, fw_train_called,
                   fn_vars, tp_vars, opt_vars, bt_vars, mp_vars>>

FwInit == FnIdle /\ OptIdle /\ BtIdle /\ MpIdle /\ FwIdle /\ TpIdle
FwNext == FwConstruct \/ FwTrain \/ FwEstimate \/ FwQuery \/ FwOptimizeMultiPeriod
SpecFw == FwInit /\ [][FwNext]_vars

-----------------------------------------------------------------------------
(* TorchPortfolioOptimizer.optimize_minimum_variance_torch and             *)
(* optimize_risk_parity_torch: the outer loop around optimizer.step.  One  *)
(* step calls the closure at least once; each call either finds            *)
(* loss < best_loss - 1e-8 (no_improve = 0) or not (no_improve += 1).      *)

\* largest number of closure calls modelled for one optimizer.step
MaxEvalsPerStep == 4

\* `if no_improve > 10: break`
Patience == 10

TpMethods  == {MINIMUM_VARIANCE, RISK_PARITY}
TpBounds   == {<<Zero, One>>, <<Zero, Q(2, 5)>>}
TpMaxIters == {0, 19, 20, 60, 100}
TpRawVecs(N) == [1..N -> {Zero, One}]

\* variant: one outer step per unit of max_iter
OuterStepsPerIteration(max_iter) == max_iter

\* range(max_iter // 20)
OuterSteps(max_iter) == max_iter \div 20

\* no_improve after the closure calls of one step; improved[i] says whether
\* call i found loss < best_loss - 1e-8
RECURSIVE NoImproveAfter(_, _, _)
NoImproveAfter(count, improved, k) ==
    IF k = 0 THEN count
    ELSE IF improved[k] THEN 0
    ELSE NoImproveAfter(count, improved, k - 1) + 1

\* lines 1293-1305 and 1376-1387: uniform start, best_loss = inf, no_improve = 0
TpStart ==
    /\ tp_pc = "idle"
    /\ \E method \in TpMethods, bounds \in TpBounds, max_iter \in TpMaxIters :
        /\ tp_in' = [method |-> method, N |-> MaxN, bounds |-> bounds,
                     max_iter |-> max_iter]
        /\ tp_pc' = IF OuterSteps(max_iter) > 0 THEN "loop" ELSE "project"
    /\ tp_weights' = Uniform(MaxN)
    /\ tp_epoch' = 0
    /\ no_improve' = 0
    /\ UNCHANGED <<fn_vars, opt_vars, bt_vars, mp_vars, fw_vars>>

\* lines 1329-1332 and 1416-1419: one optimizer.step(closure) and the test
\* that follows it
TpStep ==
    /\ tp_pc = "loop"
    /\ \E k \in 1..MaxEvalsPerStep :
       \E improved \in [1..k -> BOOLEAN] :
           no_improve' = NoImproveAfter(no_improve, improved, k)
    /\ tp_weights' \in TpRawVecs(tp_in.N)
                          \cup {Project(tp_weights, tp_in.bounds), NaNVec(tp_in.N)}
    /\ tp_epoch' = tp_epoch + 1
    /\ tp_pc' = IF no_improve' > Patience \/ tp_epoch' >= OuterSteps(tp_in.max_iter)
                THEN "project" ELSE "loop"
    /\ UNCHANGED <<tp_in, fn_vars, opt_vars, bt_vars, mp_vars, fw_vars>>

\* lines 1334-1338 and 1421-1425: the final projection and the return
TpReturn ==
    /\ tp_pc = "project"
    /\ tp_weights' = Project(tp_weights, tp_in.bounds)
    /\ tp_pc' = "returned"
    /\ UNCHANGED <<tp_in, tp_epoch, no_improve, fn_vars, opt_vars, bt_vars,
                   mp_vars, fw_vars>>

TpNext == TpStart \/ TpStep \/ TpReturn
SpecTorch == Init /\ [][TpNext]_vars

-----------------------------------------------------------------------------
(* Properties of should_rebalance and compute_transaction_costs (SpecFn).  *)

IsShouldRebalanceCall == fn_op = "should_rebalance"
IsCostCall            == fn_op = "compute_transaction_costs"

\* the period count the specification gives for a calendar frequency
ClaimedPeriod(f) ==
    CASE f = WEEKLY -> 5 [] f = MONTHLY -> 21 [] f = QUARTERLY -> 63
      [] f = ANNUALLY -> 252 [] OTHER -> 0

\* sum over the assets of |a_i - b_i|
RECURSIVE L1Upto(_, _, _)
L1Upto(a, b, k) ==
    IF k = 0 THEN Zero ELSE FAdd(L1Upto(a, b, k - 1), FAbs(FSub(a[k], b[k])))
L1(a, b) == L1Upto(a, b, Len(a))

InUnitBox(w) == \A i \in 1..Len(w) : FLe(Zero, w[i]) /\ FLe(w[i], One)

\* C4: under a calendar frequency the answer of should_rebalance is a function
\* of the elapsed count current_idx - last_rebalance_idx alone: DAILY is always
\* true, WEEKLY/MONTHLY/QUARTERLY/ANNUALLY are true exactly when the elapsed
\* count is >= 5/21/63/252, whatever the weights and the threshold are.
C4_CalendarPolicy ==
    (IsShouldRebalanceCall /\ fn_in.rebalance_freq # THRESHOLD) =>
        fn_out = (IF fn_in.rebalance_freq = DAILY THEN TRUE
                  ELSE fn_in.current_idx - fn_in.last_rebalance_idx
                           >= ClaimedPeriod(fn_in.rebalance_freq))

C4_Witness ==
    /\ IsShouldRebalanceCall
    /\ fn_in.rebalance_freq = MONTHLY
    /\ fn_in.current_idx - fn_in.last_rebalance_idx = 21
    /\ fn_in.current_weights # fn_in.target_weights
    /\ fn_out = TRUE

\* C5: under THRESHOLD should_rebalance answers true exactly when some weight
\* differs from its target by more than the threshold, independently of the
\* indices; with threshold 0 any difference triggers, and with threshold 1 and
\* all weights in [0,1] nothing triggers.
C5_ThresholdPolicy ==
    (IsShouldRebalanceCall /\ fn_in.rebalance_freq = THRESHOLD) =>
        LET cw == fn_in.current_weights
            tw == fn_in.target_weights
        IN  /\ fn_out = (\E i \in 1..Len(cw) :
                             FGt(FAbs(FSub(cw[i], tw[i])), fn_in.threshold))
            /\ (fn_in.threshold = Zero /\ cw # tw) => fn_out
            /\ (fn_in.threshold = One /\ InUnitBox(cw) /\ InUnitBox(tw)) => ~fn_out

C5_Witness ==
    /\ IsShouldRebalanceCall
    /\ fn_in.rebalance_freq = THRESHOLD
    /\ fn_in.threshold = One
    /\ fn_in.current_weights = <<One, Zero>>
    /\ fn_in.target_weights = <<Zero, One>>
    /\ fn_in.current_idx = MaxIdx
    /\ fn_out = FALSE

\* C7: rebalancing from a weight vector to itself costs nothing under every
\* cost model, portfolio value, rate, fixed fee and impact coefficient.
C7_NoTradeNoCost ==
    (IsCostCall /\ fn_in.old_weights = fn_in.new_weights) =>
        fn_out = PlainCost(Zero)

C7_Witness ==
    /\ IsCostCall
    /\ fn_in.old_weights = fn_in.new_weights
    /\ fn_in.cost_model = FIXED_PLUS_PROPORTIONAL
    /\ fn_in.fixed_cost # Zero
    /\ fn_in.cost_rate # Zero
    /\ fn_in.portfolio_value = Q(1000, 1)
    /\ fn_out = PlainCost(Zero)

ScenarioC ==
    /\ fn_in.old_weights = <<Q(1, 2), Q(1, 2)>>
    /\ fn_in.new_weights = <<Q(7, 10), Q(3, 10)>>
    /\ fn_in.portfolio_value = Q(1000, 1)
    /\ fn_in.cost_rate = Q(1, 100)

\* C8: under PROPORTIONAL the cost is rate * V * sum_i |new_i - old_i|, it is
\* the same with old and new exchanged, and Scenario C costs 4.
C8_ProportionalCost ==
    (IsCostCall /\ fn_in.cost_model = PROPORTIONAL) =>
        /\ fn_out = PlainCost(FMul(fn_in.cost_rate,
                        FMul(fn_in.portfolio_value,
                             L1(fn_in.new_weights, fn_in.old_weights))))
        /\ fn_out = compute_transaction_costs(fn_in.new_weights, fn_in.old_weights,
                        fn_in.portfolio_value, fn_in.cost_model, fn_in.cost_rate,
                        fn_in.fixed_cost, fn_in.market_impact_coef)
        /\ ScenarioC => fn_out = PlainCost(Q(4, 1))

C8_Witness ==
    /\ IsCostCall
    /\ fn_in.cost_model = PROPORTIONAL
    /\ ScenarioC
    /\ fn_out = PlainCost(Q(4, 1))

-----------------------------------------------------------------------------
(* Properties of _optimize_weights (SpecOpt).                              *)

\* N*lo <= 1 <= N*hi
ValidBounds(N, bounds) ==
    /\ FLe(FMul(Q(N, 1), bounds[1]), One)
    /\ FLe(One, FMul(Q(N, 1), bounds[2]))

\* x <= y + 1/K
LeWithin(x, y, K) == FLe(x, y) \/ WithinInv(FSub(x, y), K)

InBox(w, bounds) ==
    \A i \in 1..Len(w) : /\ LeWithin(bounds[1], w[i], 1000000000)
                         /\ LeWithin(w[i], bounds[2], 1000000000)

\* |sum(w) - 1| < 1e-6
SumsToOne(w) ==
    /\ AllFinite(w)
    /\ LET e == FAbs(FSub(FSum(w), One))
       IN  e.n = 0 \/ e.d \div e.n > 1000000 \/ (e.d \div e.n = 1000000 /\ e.d % e.n # 0)

\* a return for valid long-only bounds from a window of at least two rows
OptReturned ==
    /\ opt_pc = "returned"
    /\ ValidBounds(opt_in.N, opt_in.bounds)
    /\ FLe(Zero, opt_in.bounds[1])
    /\ Len(opt_in.window) >= 2

\* C1: for valid bounds every entry of a returned weight vector lies in
\* [lo - 1e-9, hi + 1e-9].  Stated here for lo >= 0, for the returned vectors
\* that are finite and were computed from a window of at least two rows.
C1_ReturnedWithinBounds ==
    (OptReturned /\ AllFinite(weights)) => InBox(weights, opt_in.bounds)

\* C2: for valid bounds every returned weight vector sums to 1 within 1e-6.
\* Stated here for lo >= 0 and a window of at least two rows.
C2_ReturnedSumsToOne ==
    OptReturned => SumsToOne(weights)

-----------------------------------------------------------------------------
(* Properties of run_backtest (Spec).                                      *)

\* dates[i] is in rebalance_dates
RebalancedAt(i) == \E k \in 1..Len(rebalance_dates) : rebalance_dates[k] = i

\* the Drift-Weights step of period t - 1 has just run
AfterDrift == pc \in {"check", "done"} /\ t > cfg.min_history

\* C3: after every Drift-Weights step the current weights lie within the
\* configured bounds and sum to 1.  Stated here for the runs in which no
\* rebalance has happened, so that no optimizer output is involved.
C3_DriftKeepsBox ==
    (AfterDrift /\ rebalance_dates = <<>>) =>
        /\ InBox(current_weights, cfg.bounds)
        /\ SumsToOne(current_weights)

\* C6: under THRESHOLD, a period whose drifted current weights differ from
\* every candidate target of the optimizer by more than rebalance_threshold
\* rebalances.
C6_ThresholdUsesTarget ==
    [][(/\ pc = "check"
        /\ cfg.rebalance_freq = THRESHOLD
        /\ \A candidate \in TargetWeights :
               should_rebalance(current_weights, candidate, THRESHOLD, t,
                                last_rebalance_idx, cfg.rebalance_threshold))
       => Len(rebalance_dates') = Len(rebalance_dates) + 1]_vars

\* C9: in a period whose returns are all zero and in which no rebalance is
\* triggered, Realize-Return leaves the portfolio value as it was and
\* Drift-Weights leaves the current weights as they were.
C9_ZeroReturnPeriod ==
    [][(/\ pc \in {"realize", "drift"}
        /\ cfg.returns[t + 1] = ZeroRow(cfg.N)
        /\ ~RebalancedAt(t))
       => /\ portfolio_value' = portfolio_value
          /\ current_weights' = current_weights]_vars

C9_Witness ==
    /\ AfterDrift
    /\ cfg.returns[t] = ZeroRow(cfg.N)
    /\ ~RebalancedAt(t - 1)
    /\ current_weights = <<Q(2, 3), Q(1, 3)>>
    /\ portfolio_value = Q(1500, 1)
    /\ portfolio_values[t - 1] = portfolio_value
    /\ weights_history[t - 1] = current_weights

-----------------------------------------------------------------------------
(* Properties of Scenario A (SpecA).                                       *)

\* C10: in Scenario A the current weights are [1/3,1/3,1/3] throughout, the
\* transaction cost and the turnover of every period are zero, and the
\* portfolio value stays at the initial capital.
C10_ScenarioA ==
    pc # "idle" =>
        /\ current_weights = <<Q(1, 3), Q(1, 3), Q(1, 3)>>
        /\ \A i \in 0..(cfg.T - 1) : transaction_costs[i] = Zero /\ turnover[i] = Zero
        /\ portfolio_value = cfg.initial_capital
        /\ \A i \in cfg.min_history..(t - 1) :
               /\ weights_history[i] = <<Q(1, 3), Q(1, 3), Q(1, 3)>>
               /\ portfolio_values[i] = cfg.initial_capital

C10_Witness ==
    /\ pc = "done"
    /\ t = 100
    /\ Len(rebalance_dates) >= 3
    /\ cfg.cost_model = FIXED_PLUS_PROPORTIONAL
    /\ current_weights = <<Q(1, 3), Q(1, 3), Q(1, 3)>>
    /\ transaction_costs[rebalance_dates[1]] = Zero
    /\ turnover[rebalance_dates[1]] = Zero
    /\ portfolio_value = cfg.initial_capital

\* the product of (1 + r) over the rows from..to of a single-asset series
RECURSIVE GrowthOver(_, _, _)
GrowthOver(returns, from, to) ==
    IF from > to THEN One
    ELSE FMul(GrowthOver(returns, from, to - 1), FAdd(One, returns[to][1]))

\* C11: with a single asset the portfolio value at the end of run_backtest is
\* initial_capital times the product of (1 + r_t) over all periods of the
\* return series.  Stated here for equal_weight, whose target is always [1.0].
C11_ScenarioB ==
    (pc = "done" /\ cfg.N = 1 /\ cfg.optimization_method = EQUAL_WEIGHT) =>
        /\ current_weights = <<One>>
        /\ portfolio_value =
               FMul(cfg.initial_capital, GrowthOver(cfg.returns, 1, cfg.T))

\* C12: when a run_backtest that simulated at least one period is through,
\* every period index 0..T-1 has an entry, and the entry holds what the
\* portfolio had at the end of that period: the initial capital and the equal
\* weights for the periods before min_history, in which nothing is traded,
\* and the final value and weights for period T-1.
C12_RecordPerPeriod ==
    (pc = "done" /\ cfg.min_history < cfg.T) =>
        /\ DOMAIN portfolio_values = 0..(cfg.T - 1)
        /\ DOMAIN weights_history = 0..(cfg.T - 1)
        /\ \A i \in 0..(cfg.min_history - 1) :
               /\ portfolio_values[i] = cfg.initial_capital
               /\ weights_history[i] = Uniform(cfg.N)
        /\ portfolio_values[cfg.T - 1] = portfolio_value
        /\ weights_history[cfg.T - 1] = current_weights

\* C14: run_backtest on a series with T <= min_history raises
\* InsufficientDataError: it never gets past the loop to build a result.
C14_ShortSeriesRaises ==
    (pc # "idle" /\ cfg.T <= cfg.min_history) => pc = "raised"

-----------------------------------------------------------------------------
(* Error handling of _optimize_weights (SpecOpt).                          *)

\* C13: _optimize_weights on a window of fewer than two rows raises
\* InsufficientDataError: it computes no statistics and returns no weights.
C13_ShortWindowRaises ==
    (opt_pc # "idle" /\ Len(opt_in.window) < 2) => opt_pc = "raised"

\* C15: _optimize_weights with bounds that cannot sum to one (N*lo > 1 or
\* N*hi < 1) raises InfeasibleConstraintError before the first step.  Stated
\* here for windows of at least two rows.
C15_InfeasibleBoundsRaise ==
    (/\ opt_pc # "idle"
     /\ Len(opt_in.window) >= 2
     /\ ~ValidBounds(opt_in.N, opt_in.bounds)) => opt_pc = "raised"

-----------------------------------------------------------------------------
(* Properties of MultiPeriodOptimizer (SpecMp).                            *)

\* C19: in optimize_dynamic_program the solve of a period t with 0 < t < H-1
\* takes optimal_weights[t-1] as its turnover reference only after that row
\* has been assigned its solved value, and the solve of period 0 takes
\* initial_weights.
C19_ReferenceIsSolved ==
    (mp_pc # "idle" /\ ~mp_in.use_garch) =>
        \A k \in 1..Len(mp_refs) :
            /\ (0 < mp_refs[k].t /\ mp_refs[k].t < mp_in.n_periods - 1)
                   => mp_refs[k].previous_assigned
            /\ mp_refs[k].t = 0 => mp_refs[k].reference = mp_in.initial_weights

\* the weights held before period k of the committed plan
PlanPrevious(k) == IF k = 0 THEN mp_in.initial_weights ELSE optimal_weights[k - 1]

\* sum over the periods 0 .. k-1 of sum_i |w_t,i - w_{t-1},i|
RECURSIVE PlanTurnover(_)
PlanTurnover(k) ==
    IF k = 0 THEN Zero
    ELSE FAdd(PlanTurnover(k - 1), L1(optimal_weights[k - 1], PlanPrevious(k - 1)))

\* wealth after the periods 0 .. k-1: the cost comes off before the return
RECURSIVE PlanWealth(_)
PlanWealth(k) ==
    IF k = 0 THEN One
    ELSE FMul(FSub(PlanWealth(k - 1),
                   FMul(mp_in.transaction_cost_rate,
                        L1(optimal_weights[k - 1], PlanPrevious(k - 1)))),
              FAdd(One, Dot(optimal_weights[k - 1], mp_in.mean_returns)))

\* C20: the returned plan is the list of the H pairs (t, w_t), t = 0 .. H-1 in
\* increasing order; the solver ran once per period and not during the
\* simulation; total_transaction_costs = rate * sum_t sum_i |w_t,i - w_{t-1},i|
\* with w_{-1} = initial_weights; the wealth starts at 1 and in every period
\* the cost is deducted before the return is applied.
C20_PlanReplayed ==
    mp_pc = "returned" =>
        /\ Len(mp_result.rebalancing_plan) = mp_in.n_periods
        /\ \A k \in 1..mp_in.n_periods :
               mp_result.rebalancing_plan[k] = <<k - 1, optimal_weights[k - 1]>>
        /\ mp_result.optimal_weights = optimal_weights
        /\ Len(mp_refs) = mp_in.n_periods
        /\ mp_result.total_transaction_costs =
               FMul(mp_in.transaction_cost_rate, PlanTurnover(mp_in.n_periods))
        /\ mp_result.terminal_wealth = PlanWealth(mp_in.n_periods)

C20_Witness ==
    /\ mp_pc = "returned"
    /\ mp_in.n_periods = 3
    /\ optimal_weights[0] = <<One, Zero>>
    /\ optimal_weights[1] = <<Q(1, 2), Q(1, 2)>>
    /\ optimal_weights[2] = <<Zero, One>>
    /\ mp_in.initial_weights = <<Q(1, 2), Q(1, 2)>>
    /\ mp_in.mean_returns = <<One, Zero>>
    /\ mp_result.total_transaction_costs = Q(3, 4)
    /\ mp_result.terminal_wealth = Q(13, 8)

-----------------------------------------------------------------------------
(* Properties of ModernPortfolioFramework (SpecFw).                        *)

\* the step is a call of a neural query
QueryStep == fw_pc = "ready" /\ fw_calls' = fw_calls + 1 /\ fw_last'.op = "query"

\* C16: a query of a neural collaborator whose train_* operation has not been
\* called raises, changes no field of the framework and leaves the framework
\* usable; a query after a completed train_* call returns a value.
C16_UntrainedQueryRaises ==
    [][QueryStep =>
        /\ fw_last'.model \notin fw_train_called =>
               /\ fw_last'.outcome = "raised"
               /\ fw_models' = fw_models
               /\ fw_trained' = fw_trained
               /\ multi_period_optimizer' = multi_period_optimizer
               /\ fw_pc' = "ready"
        /\ fw_last'.model \in fw_trained => fw_last'.outcome = "value"]_vars

C16_Witness ==
    /\ fw_pc = "ready"
    /\ fw_calls = 3
    /\ fw_last.op = "query"
    /\ fw_last.model = "return_predictor"
    /\ fw_last.outcome = "value"
    /\ fw_last.raises = 1
    /\ fw_trained = {"return_predictor"}
    /\ fw_next_id = 2

\* C17: a neural submodule, once created, is the same object ever after, and
\* it is created only by a train or estimate call for that submodule.
C17_CreatedOnce ==
    [][fw_pc = "ready" =>
        \A m \in NeuralModels :
            /\ fw_models[m] # 0 => fw_models'[m] = fw_models[m]
            /\ (fw_models[m] = 0 /\ fw_models'[m] # 0) =>
                   /\ fw_last'.op \in {"train", "estimate"}
                   /\ fw_last'.model = m
                   /\ fw_last'.created]_vars

C17_Witness ==
    /\ fw_pc = "ready"
    /\ fw_calls = MaxCalls
    /\ fw_last.op = "train"
    /\ fw_last.model = "risk_parity_net"
    /\ ~fw_last.created
    /\ fw_models["risk_parity_net"] = 1
    /\ fw_models["attention_model"] = 2
    /\ fw_next_id = 3

\* C18: every call of optimize_multi_period optimizes with the
\* transaction_cost_rate and the risk_aversion given in that call.
C18_UsesCallArguments ==
    (fw_pc = "ready" /\ fw_last.op = "optimize_multi_period") =>
        /\ fw_last.used_rate = fw_last.transaction_cost_rate
        /\ fw_last.used_risk_aversion = fw_last.risk_aversion

-----------------------------------------------------------------------------
(* Further properties of run_backtest (Spec).                              *)

\* C21: in a period whose rebalance is triggered, the Check-Rebalance step
\* charges the cost computed from the weights and the value held before it,
\* deducts it from the value, records turnover[t] = sum_i |target_i - current_i|,
\* replaces the weights by the target, sets last_rebalance_idx to t and appends
\* the date; the return of the period is realised only afterwards.
C21_RebalanceEffects ==
    [][(pc = "check" /\ RebalanceDue) =>
        \E target \in TargetWeights :
            LET tc == compute_transaction_costs(current_weights, target,
                          portfolio_value, cfg.cost_model, cfg.cost_rate,
                          Zero, Zero).rat
            IN  /\ transaction_costs' = [transaction_costs EXCEPT ![t] = tc]
                /\ portfolio_value' = FSub(portfolio_value, tc)
                /\ turnover' = [turnover EXCEPT ![t] = L1(target, current_weights)]
                /\ current_weights' = target
                /\ last_rebalance_idx' = t
                /\ rebalance_dates' = Append(rebalance_dates, t)
                /\ pc' = "realize"
                /\ portfolio_returns' = portfolio_returns
                /\ portfolio_values' = portfolio_values]_vars

C21_Witness ==
    /\ pc = "realize"
    /\ t = 2
    /\ cfg.cost_model = PROPORTIONAL
    /\ rebalance_dates = <<1, 2>>
    /\ last_rebalance_idx = 2
    /\ current_weights = <<Q(1, 2), Q(1, 2)>>
    /\ weights_history[1] = <<Q(2, 3), Q(1, 3)>>
    /\ turnover[2] = Q(1, 3)
    /\ transaction_costs[2] = Q(5, 1)
    /\ portfolio_value = Q(1495, 1)
    /\ portfolio_values[2] = Zero

\* the return series that agree with cfg.returns on all rows before period t
SameBefore(now) ==
    {[i \in 1..cfg.T |-> IF i <= now THEN cfg.returns[i] ELSE later[i]] :
         later \in [1..cfg.T -> Rows(cfg.N)]}

\* the targets line 335 can assign when the series is `returns`
TargetWeightsOn(returns) ==
    OptimizeWeights(HistoricalReturns(returns, t, cfg.lookback_window),
                    cfg.N, cfg.optimization_method, cfg.bounds)

\* rows from+1 .. to of the series, in 1-based positions
RowsBetween(returns, from, to) == [k \in 1..(to - from) |-> returns[from + k]]

\* C22: at the rebalance check of period t the window handed to the optimizer
\* is returns[max(0, t-lookback) .. t-1], and the decision and the possible
\* targets are the same for every series that agrees with the given one on
\* all rows before t.
C22_NoLookAhead ==
    pc = "check" =>
        /\ HistoricalReturns(cfg.returns, t, cfg.lookback_window) =
               RowsBetween(cfg.returns,
                           IF t - cfg.lookback_window > 0
                           THEN t - cfg.lookback_window ELSE 0, t)
        /\ \A other \in SameBefore(t) :
               /\ TargetWeightsOn(other) = TargetWeights
               /\ should_rebalance(current_weights, current_weights,
                                   cfg.rebalance_freq, t, last_rebalance_idx,
                                   cfg.rebalance_threshold) = RebalanceDue

C22_Witness ==
    /\ pc = "check"
    /\ t = 2
    /\ cfg.rebalance_freq = DAILY
    /\ cfg.optimization_method = MINIMUM_VARIANCE
    /\ cfg.lookback_window = 2
    /\ cfg.returns = <<UpRow(2), ZeroRow(2), SpreadRow(2)>>
    /\ Cardinality(TargetWeights) > 1
    /\ Cardinality(SameBefore(t)) = 3

\* the portfolio value with which period i was entered
ValueBefore(i) ==
    IF i = cfg.min_history THEN cfg.initial_capital ELSE portfolio_values[i - 1]

\* C23: once the return of period t is realised, portfolio_values[t] is
\* (V_before - transaction_costs[t]) * (1 + sum_i w_i * returns[t][i]) for the
\* weights w held after the rebalance check, transaction_costs[t] is 0 if the
\* period had no rebalance, and portfolio_returns[t] is that weighted return.
C23_ValueRecurrence ==
    pc = "drift" =>
        LET weighted == Dot(current_weights, cfg.returns[t + 1])
        IN  /\ portfolio_returns[t] = weighted
            /\ portfolio_values[t] =
                   FMul(FSub(ValueBefore(t), transaction_costs[t]),
                        FAdd(One, weighted))
            /\ portfolio_value = portfolio_values[t]
            /\ ~RebalancedAt(t) => transaction_costs[t] = Zero

C23_Witness ==
    /\ pc = "drift"
    /\ t = 2
    /\ cfg.min_history = 1
    /\ RebalancedAt(2)
    /\ portfolio_values[1] = Q(1500, 1)
    /\ transaction_costs[2] = Q(5, 1)
    /\ current_weights = <<Q(1, 2), Q(1, 2)>>
    /\ cfg.returns[3] = UpRow(2)
    /\ portfolio_returns[2] = Q(1, 2)
    /\ portfolio_values[2] = Q(4485, 2)

\* the records of a run between the entry of the loop and the return
RebalanceRecordsKept ==
    pc \in {"check", "realize", "drift", "done"} =>
        /\ \A i \in 0..(cfg.T - 1) :
               ~RebalancedAt(i) =>
                   transaction_costs[i] = Zero /\ turnover[i] = Zero
        /\ \A k \in 1..Len(rebalance_dates) :
               /\ rebalance_dates[k] \in cfg.min_history..(cfg.T - 1)
               /\ rebalance_dates[k] <= t
               /\ k > 1 => rebalance_dates[k - 1] < rebalance_dates[k]
        /\ last_rebalance_idx =
               IF rebalance_dates = <<>> THEN cfg.min_history
               ELSE rebalance_dates[Len(rebalance_dates)]
        /\ pc # "done" => cfg.min_history <= last_rebalance_idx /\ last_rebalance_idx <= t

\* C26: transaction_costs[i] and turnover[i] are 0 for every period without a
\* rebalance, the warm-up periods included; rebalance_dates gets exactly one
\* entry, the period itself, at each check that rebalances and none otherwise,
\* so it is strictly increasing; and min_history <= last_rebalance_idx <= t
\* throughout the loop.
C26_RebalanceRecords ==
    [][/\ RebalanceRecordsKept'
       /\ pc = "check" =>
              rebalance_dates' = IF RebalanceDue THEN Append(rebalance_dates, t)
                                 ELSE rebalance_dates
       /\ pc \in {"realize", "drift"} => rebalance_dates' = rebalance_dates]_vars

C26_Witness ==
    /\ pc = "done"
    /\ cfg.min_history = 1
    /\ rebalance_dates = <<1, 2>>
    /\ last_rebalance_idx = 2
    /\ transaction_costs[0] = Zero
    /\ turnover[0] = Zero
    /\ transaction_costs[2] = Q(5, 1)
    /\ turnover[2] = Q(1, 3)

\* the last period whose rebalance check has been made
LastChecked ==
    CASE pc = "check" -> t - 1
      [] pc = "done" -> cfg.T - 1
      [] OTHER -> t

\* C27: under a calendar frequency with period k the rebalanced periods are
\* exactly min_history + j*k with j >= 1 (so never min_history itself), and
\* under DAILY they are all periods from min_history on.
C27_CalendarSchedule ==
    pc \in {"check", "realize", "drift", "done"} =>
        LET k == ClaimedPeriod(cfg.rebalance_freq)
        IN  \A i \in 0..(cfg.T - 1) :
                RebalancedAt(i) <=>
                    /\ i <= LastChecked
                    /\ IF cfg.rebalance_freq = DAILY
                       THEN i >= cfg.min_history
                       ELSE \E j \in 1..cfg.T : i = cfg.min_history + j * k

C27_Witness ==
    /\ pc = "done"
    /\ cfg.rebalance_freq = WEEKLY
    /\ cfg.min_history = 5
    /\ Len(rebalance_dates) >= 50
    /\ rebalance_dates[1] = 10
    /\ rebalance_dates[2] = 15
    /\ rebalance_dates[50] = 255

-----------------------------------------------------------------------------
(* Properties of the metrics at the end of run_backtest (Spec).            *)

\* the run kept a positive value throughout: every realised period return is
\* above -1 and every cost charged is below the value it is taken from
ValueStayedPositive ==
    \A i \in cfg.min_history..(cfg.T - 1) :
        /\ FGt(portfolio_returns[i], Q(-1, 1))
        /\ FLt(transaction_costs[i], ValueBefore(i))

\* C28: with min_history >= 2, positive capital, period returns > -1 and costs
\* below the portfolio value, the finished run has portfolio_values[0] equal to
\* the capital and portfolio_values[i] = 0 for 0 < i < min_history, and the
\* max_drawdown computed from it, and reported whenever a table is returned,
\* is exactly -1.
C28_WarmupDrawdown ==
    (/\ pc = "done"
     /\ FGt(cfg.initial_capital, Zero)
     /\ cfg.min_history >= 2
     /\ ValueStayedPositive) =>
        /\ portfolio_values[0] = cfg.initial_capital
        /\ \A i \in 1..(cfg.T - 1) :
               i < cfg.min_history => portfolio_values[i] = Zero
        /\ MaxDrawdown(portfolio_values, cfg.T) = Q(-1, 1)
        /\ metrics.outcome = "returned" => metrics.max_drawdown = Q(-1, 1)

C28_Witness ==
    /\ pc = "done"
    /\ metrics.outcome = "returned"
    /\ cfg.min_history = 2
    /\ cfg.returns = <<UpRow(2), ZeroRow(2), SpreadRow(2)>>
    /\ ValueStayedPositive
    /\ portfolio_values = [i \in 0..2 |-> CASE i = 0 -> Q(1000, 1)
                                            [] i = 1 -> Zero
                                            [] i = 2 -> Q(495, 1)]
    /\ metrics.max_drawdown = Q(-1, 1)
    /\ metrics.total_return = Q(-101, 200)

\* C30: _compute_performance_metrics returns its table and never raises,
\* whatever the history; stated here for runs that simulated at least one
\* period.
C30_MetricsNeverRaise ==
    (pc = "done" /\ cfg.min_history < cfg.T /\ metrics.outcome # "none") =>
        metrics.outcome = "returned"

-----------------------------------------------------------------------------
(* The cost models as run_backtest uses them (Spec).                       *)

\* C29: at every rebalance made with a positive finite portfolio value under
\* FIXED_PLUS_PROPORTIONAL or MARKET_IMPACT, the cost charged is
\* cost_rate * value * sum_i |target_i - current_i|, the cost that
\* PROPORTIONAL charges with the same rate.
C29_FeesNeverPassed ==
    [][(/\ pc = "check"
        /\ RebalanceDue
        /\ cfg.cost_model \in {FIXED_PLUS_PROPORTIONAL, MARKET_IMPACT}
        /\ IsFinite(portfolio_value)
        /\ FGt(portfolio_value, Zero)) =>
           /\ transaction_costs'[t] =
                  FMul(cfg.cost_rate,
                       FMul(portfolio_value, L1(current_weights', current_weights)))
           /\ transaction_costs'[t] =
                  compute_transaction_costs(current_weights, current_weights',
                                            portfolio_value, PROPORTIONAL,
                                            cfg.cost_rate, Zero, Zero).rat
           /\ portfolio_value' = FSub(portfolio_value, transaction_costs'[t])]_vars

C29_Witness ==
    /\ pc = "realize"
    /\ t = 2
    /\ cfg.cost_model = FIXED_PLUS_PROPORTIONAL
    /\ RebalancedAt(2)
    /\ weights_history[1] = <<Q(2, 3), Q(1, 3)>>
    /\ current_weights = <<Q(1, 2), Q(1, 2)>>
    /\ turnover[2] = Q(1, 3)
    /\ transaction_costs[2] = Q(5, 1)
    /\ portfolio_value = Q(1495, 1)

-----------------------------------------------------------------------------
(* The continuation term of optimize_dynamic_program (SpecMp).             *)

\* weight vectors that a later period can hold
NextPeriodWeights(N) ==
    {Project(w, mp_in.bounds) : w \in MpRawVecs(N) \cup {mp_in.initial_weights}}
        \cup {ZeroRow(N)}

\* C25: at the solve of an intermediate period t < H-1 of the backward loop,
\* the weights that can be assigned to optimal_weights[t] are the same set
\* whatever optimal_weights[t+1] holds, and the assigned row is taken from it.
C25_IgnoresNextPeriod ==
    [][(/\ mp_pc = "solve"
        /\ ~mp_in.use_garch
        /\ mp_t < mp_in.n_periods - 1) =>
           \A other \in NextPeriodWeights(mp_in.N) :
               /\ SolveWithContinuation(Reference, other, mp_in.bounds) =
                      SolveWithContinuation(Reference, optimal_weights[mp_t + 1],
                                            mp_in.bounds)
               /\ optimal_weights'[mp_t] \in
                      SolveWithContinuation(Reference, other, mp_in.bounds)]_vars

C25_Witness ==
    /\ mp_pc = "simulate"
    /\ ~mp_in.use_garch
    /\ mp_in.n_periods = 2
    /\ mp_assigned = {0, 1}
    /\ mp_refs[2].t = 0
    /\ mp_refs[2].reference = mp_in.initial_weights
    /\ optimal_weights[1] = <<One, Zero>>
    /\ optimal_weights[0] = <<Zero, One>>
    /\ optimal_weights[1] \in NextPeriodWeights(2)

-----------------------------------------------------------------------------
(* Termination of the torch optimizers (SpecTorch).                        *)

\* what holds of a call at every point after its start; clamping equal
\* entries to [lo, hi] with hi > 0 and dividing by their sum gives 1/N each
TorchLoopBounded ==
    tp_pc # "idle" =>
        /\ tp_epoch <= tp_in.max_iter \div 20
        /\ tp_pc = "loop" => no_improve <= 10 /\ tp_epoch < tp_in.max_iter \div 20
        /\ tp_pc \in {"project", "returned"} =>
               no_improve > 10 \/ tp_epoch = tp_in.max_iter \div 20
        /\ (tp_pc = "returned" /\ tp_in.max_iter < 20) =>
               /\ tp_epoch = 0
               /\ tp_weights = [i \in 1..tp_in.N |-> Q(1, tp_in.N)]

\* the number of steps a call can still take: the outer steps left of the
\* budget, the final projection and, inside the loop, the exit from it
StepsLeft ==
    CASE tp_pc = "returned" -> 0
      [] tp_pc = "project" -> 1
      [] OTHER -> 2 + ((tp_in.max_iter \div 20) - tp_epoch)

\* C24: a call makes at most max_iter // 20 outer steps; it goes on to the
\* next step only while no_improve <= 10 and leaves the loop before the
\* budget is used up only with no_improve > 10; with max_iter < 20 it makes
\* no step and returns the projected uniform weights; and every step of a
\* call lowers the number of steps left, which is never negative, so the call
\* returns after at most max_iter // 20 + 2 steps.
C24_TorchTerminates ==
    [][/\ TorchLoopBounded'
       /\ tp_pc # "idle" => StepsLeft' < StepsLeft /\ StepsLeft' >= 0
       /\ tp_pc = "loop" => tp_epoch' = tp_epoch + 1]_vars

C24_Witness ==
    /\ tp_pc = "returned"
    /\ tp_in.max_iter = 100
    /\ tp_epoch = 3
    /\ no_improve = 12

=============================================================================
